---- MODULE Spec2Model ----
(***************************************************************************)
(* Kurioto multi-layer child-safety pipeline.                              *)
(*                                                                         *)
(* The model follows src/src/kurioto/safety: the shared result types       *)
(* (base.py), the three classifier layers (classifiers/*.py), the          *)
(* orchestrator MultiLayerSafetyEvaluator (multi_layer.py), the            *)
(* HumanReviewQueue (review_queue.py) and the SafetyAgent facade           *)
(* (agents/safety_agent.py).                                               *)
(*                                                                         *)
(* Conventions.  Enum members are their string values, because the source  *)
(* compares several of them through the str ordering of those values.      *)
(* Confidences and toxicity scores are integers in hundredths (0.9 = 90).  *)
(* A text is a record [words, terminators]: its lower-cased words without  *)
(* the sentence punctuation, and the number of '.', '!' and '?' in it.     *)
(* A topic or keyword is the sequence of its words.                        *)
(***************************************************************************)
EXTENDS Integers, Sequences, FiniteSets, TLC

VARIABLES
    child_profile,  \* MultiLayerSafetyEvaluator.child_profile
    classifiers,    \* MultiLayerSafetyEvaluator.classifiers: the chain, by name
    queue,          \* HumanReviewQueue._queue: ticket ids, oldest first
    items_by_id,    \* HumanReviewQueue._items_by_id: the ids the dict holds
    items,          \* the ReviewQueueItem objects ever created, by id
    pc,             \* where the evaluation in flight stands
    call,           \* the locals of the evaluation in flight
    result,         \* the MultiLayerResult of the last finished evaluation
    merge,          \* _merge_decision folded over a list of verdicts
    probe,          \* one classify call on a classifier of any configuration
    now,            \* datetime.now(), in hours
    ret,            \* the last call on the review queue and what it returned
    sweep,          \* the get_pending_items sweep in flight on a shared queue
    loop,           \* an event loop whose coroutines call the evaluator
    _on_urgent_item \* HumanReviewQueue._on_urgent_item: the callbacks, by kind

vars == <<child_profile, classifiers, queue, items_by_id, items,
          pc, call, result, merge, probe, now, ret, sweep, loop,
          _on_urgent_item>>

pipeline_vars == <<child_profile, classifiers, queue, items_by_id, items,
                   pc, call, result>>

evaluator_vars == <<child_profile, classifiers>>

queue_vars == <<queue, items_by_id, items>>

harness_vars == <<merge, probe, now, ret, sweep, loop, _on_urgent_item>>

(***************************************************************************)
(* Bounds of the model.                                                    *)
(***************************************************************************)
MaxTickets == 1

MaxQueueSize == 2

MaxMergeLen == 3

MaxOthers == 12

MaxCallbacks == 2

(***************************************************************************)
(* base.py: enums and SafetyResult.                                        *)
(***************************************************************************)
SafetyAction == {"allow", "block", "redirect", "simplify", "review", "warn_parent"}

SafetySeverity == {"none", "low", "medium", "high", "critical"}

AgeGroup ==
    {"early_childhood", "middle_childhood", "late_childhood", "early_teen", "late_teen"}

\* The enum values in dictionary order: Python's str comparison on them.
Lexicon ==
    <<"allow", "block", "critical", "high", "low", "medium", "none",
      "redirect", "review", "simplify", "warn_parent">>

LexPos(s) == CHOOSE i \in 1..Len(Lexicon) : Lexicon[i] = s

\* a > b and a >= b on two str values (str.__gt__, str.__ge__).
StrGT(a, b) == LexPos(a) > LexPos(b)

StrGE(a, b) == LexPos(a) >= LexPos(b)

SafetyResult(action, reason, severity, confidence, parent_alert, classifier_name) ==
    [action |-> action, reason |-> reason, severity |-> severity,
     confidence |-> confidence, parent_alert |-> parent_alert,
     classifier_name |-> classifier_name]

\* BaseSafetyClassifier.__init__ and the is_available property: what classify
\* reads of self
Classifier(fail_safe, is_available) ==
    [fail_safe |-> fail_safe, is_available |-> is_available]

\* A classifier as MultiLayerSafetyEvaluator.__init__ puts it in the chain:
\* constructed with the default fail_safe=True, appended only if is_available
ChainClassifier == Classifier(TRUE, TRUE)

\* _fail_safe_result whose blocking verdict does not alert the parent
_fail_safe_result_NoAlert(fail_safe, name) ==
    IF fail_safe
    THEN SafetyResult("block", "classifier failed, blocking", "high", 0, FALSE, name)
    ELSE SafetyResult("allow", "classifier failed, allowing", "none", 0, FALSE, name)

\* BaseSafetyClassifier._fail_safe_result
_fail_safe_result(fail_safe, name) ==
    IF fail_safe
    THEN SafetyResult("block", "classifier failed, blocking", "high", 0, TRUE, name)
    ELSE SafetyResult("allow", "classifier failed, allowing", "none", 0, FALSE, name)

(***************************************************************************)
(* Texts.  Substring tests of the source are made on words: HasSub(w, k)   *)
(* says that keyword k occurs inside word w.                               *)
(***************************************************************************)
SubstringPairs ==
    {<<"weapons", "weapon">>, <<"hacking", "hack">>, <<"bombs", "bomb">>}

HasSub(w, k) == w = k \/ <<w, k>> \in SubstringPairs

\* `phrase in text_lower` for a phrase of one or more words.
Contains(text, phrase) ==
    \E i \in 0..(Len(text.words) - Len(phrase)) :
        \A j \in 1..Len(phrase) : HasSub(text.words[i + j], phrase[j])

\* pattern.search(text): some phrase of the pattern's language occurs in the
\* text; the match may end inside the last word.
Search(phrases, text) ==
    \E p \in phrases :
        \E i \in 0..(Len(text.words) - Len(p)) :
            \A j \in 1..Len(p) :
                IF j = Len(p) THEN HasSub(text.words[i + j], p[j])
                              ELSE text.words[i + j] = p[j]

Text(words, terminators) == [words |-> words, terminators |-> terminators]

Texts ==
    { Text(<<"how", "to", "make", "a", "bomb">>, 0),
      Text(<<"how", "to", "build", "a", "gun">>, 0),
      Text(<<"how", "to", "steal", "drugs">>, 1),
      Text(<<"what", "is", "your", "address">>, 1),
      Text(<<"tell", "me", "about", "alcohol">>, 0),
      Text(<<"alcohol", "photosynthesis", "transformation", "metabolization">>, 1),
      Text(<<"bomb", "and", "drugs">>, 0),
      Text(<<"how", "do", "i", "make", "a", "bomb">>, 1),
      Text(<<"why", "is", "the", "sky", "blue">>, 1),
      Text(<<"you", "are", "dumb">>, 0),
      Text(<<"photosynthesis", "transformation", "metabolization">>, 1) }

(***************************************************************************)
(* classifiers/regex_classifier.py                                         *)
(***************************************************************************)
Opt(w) == {<<>>, <<w>>}

BLOCKED_TERMS ==
    << [term |-> <<"weapon">>, severity |-> "high"],
       [term |-> <<"bomb">>, severity |-> "critical"],
       [term |-> <<"explosive">>, severity |-> "critical"],
       [term |-> <<"gun">>, severity |-> "high"],
       [term |-> <<"knife", "attack">>, severity |-> "critical"],
       [term |-> <<"drugs">>, severity |-> "high"],
       [term |-> <<"alcohol">>, severity |-> "medium"],
       [term |-> <<"smoking">>, severity |-> "medium"],
       [term |-> <<"vaping">>, severity |-> "medium"],
       [term |-> <<"suicide">>, severity |-> "critical"],
       [term |-> <<"self-harm">>, severity |-> "critical"],
       [term |-> <<"eating", "disorder">>, severity |-> "high"],
       [term |-> <<"pornography">>, severity |-> "critical"],
       [term |-> <<"sexual">>, severity |-> "high"],
       [term |-> <<"nude">>, severity |-> "high"],
       [term |-> <<"gambling">>, severity |-> "medium"],
       [term |-> <<"betting">>, severity |-> "medium"],
       [term |-> <<"hacking">>, severity |-> "medium"],
       [term |-> <<"malware">>, severity |-> "high"],
       [term |-> <<"virus">>, severity |-> "medium"] >>

DANGEROUS_INSTRUCTION_PATTERNS ==
    << [phrases |-> { <<"how", "to", v>> \o a \o <<n>> :
                        v \in {"make", "build", "create", "construct"},
                        a \in Opt("a"),
                        n \in {"bomb", "weapon", "explosive", "gun"} },
        severity |-> "critical"],
       [phrases |-> { <<"how", "to", v>> :
                        v \in {"hurt", "harm", "kill", "attack", "murder"} },
        severity |-> "critical"],
       [phrases |-> { <<"how", "to">> \o v :
                        v \in {<<"steal">>, <<"hack">>, <<"break", "into">>} },
        severity |-> "high"],
       [phrases |-> { k \o <<"number">> :
                        k \in {<<"credit", "card">>, <<"password">>,
                               <<"social", "security">>} },
        severity |-> "high"] >>

PII_PATTERNS ==
    << [phrases |-> { a \o <<"your", n>> :
                        a \in {<<"what", "is">>, <<"tell", "me">>, <<"give", "me">>},
                        n \in {"address", "phone", "school", "password"} },
        severity |-> "high"],
       [phrases |-> { <<"where", "do", "you", "live">> },
        severity |-> "medium"],
       [phrases |-> { w \o <<"your", r, "name">> :
                        w \in {<<"what's">>, <<"what", "is">>},
                        r \in {"real", "full"} },
        severity |-> "medium"],
       [phrases |-> { <<s>> \o m \o a \o <<"photo", "of", y>> :
                        s \in {"send", "share"}, m \in Opt("me"), a \in Opt("a"),
                        y \in {"yourself", "you"} },
        severity |-> "high"] >>

SAFE_REDIRECTS == {"bomb", "weapon", "drugs", "hacking"}

\* RegexSafetyClassifier._find_redirect: TRUE when a redirect text is found
_find_redirect(text) == \E k \in SAFE_REDIRECTS : Contains(text, <<k>>)

\* Index of the first entry of a pattern table that text matches, 0 if none.
FirstPattern(table, text) ==
    IF \E i \in 1..Len(table) : Search(table[i].phrases, text)
    THEN CHOOSE i \in 1..Len(table) :
            /\ Search(table[i].phrases, text)
            /\ \A j \in 1..(i - 1) : ~Search(table[j].phrases, text)
    ELSE 0

\* The blocked-terms loop leaving at the first allowed term it meets
FirstBlockedTerm_SkipEndsScan(text, context) ==
    LET found(i) == Contains(text, BLOCKED_TERMS[i].term)
    IN  IF \E i \in 1..Len(BLOCKED_TERMS) : found(i)
        THEN LET i == CHOOSE i \in 1..Len(BLOCKED_TERMS) :
                        found(i) /\ \A j \in 1..(i - 1) : ~found(j)
             IN  IF \/ BLOCKED_TERMS[i].term \in context.blocked_topics
                    \/ BLOCKED_TERMS[i].term \notin context.allowed_topics
                 THEN i ELSE 0
        ELSE 0

\* The blocked-terms loop: the first term, in table order, that occurs in the
\* text and is not skipped by the allow-list; 0 if the loop runs out.
FirstBlockedTerm(text, context) ==
    LET hit(i) ==
            /\ Contains(text, BLOCKED_TERMS[i].term)
            /\ \/ BLOCKED_TERMS[i].term \in context.blocked_topics
               \/ BLOCKED_TERMS[i].term \notin context.allowed_topics
    IN  IF \E i \in 1..Len(BLOCKED_TERMS) : hit(i)
        THEN CHOOSE i \in 1..Len(BLOCKED_TERMS) :
                hit(i) /\ \A j \in 1..(i - 1) : ~hit(j)
        ELSE 0

\* RegexSafetyClassifier.classify
RegexClassify(text, context) ==
    LET d == FirstPattern(DANGEROUS_INSTRUCTION_PATTERNS, text)
        p == FirstPattern(PII_PATTERNS, text)
        t == FirstBlockedTerm(text, context)
    IN  IF d # 0 THEN
            SafetyResult(IF _find_redirect(text) THEN "redirect" ELSE "block",
                         "Dangerous instruction request detected",
                         DANGEROUS_INSTRUCTION_PATTERNS[d].severity,
                         95, TRUE, "regex_blocklist")
        ELSE IF p # 0 THEN
            SafetyResult("block", "Personal information request detected",
                         PII_PATTERNS[p].severity, 90,
                         StrGE(PII_PATTERNS[p].severity, "high"),
                         "regex_blocklist")
        ELSE IF t # 0 THEN
            SafetyResult(IF _find_redirect(text) THEN "redirect" ELSE "block",
                         "Blocked term detected",
                         BLOCKED_TERMS[t].severity, 85,
                         StrGE(BLOCKED_TERMS[t].severity, "high"),
                         "regex_blocklist")
        ELSE IF \E topic \in context.blocked_topics : Contains(text, topic) THEN
            SafetyResult("block", "Parent-blocked topic", "low", 90, FALSE,
                         "regex_blocklist")
        ELSE
            SafetyResult("allow", "No blocklist matches found", "none", 70, FALSE,
                         "regex_blocklist")

(***************************************************************************)
(* classifiers/perspective_classifier.py                                   *)
(***************************************************************************)
AGE_THRESHOLDS ==
    [ early_childhood  |-> [block |-> 30, review |-> 15],
      middle_childhood |-> [block |-> 40, review |-> 25],
      late_childhood   |-> [block |-> 50, review |-> 35],
      early_teen       |-> [block |-> 60, review |-> 45],
      late_teen        |-> [block |-> 70, review |-> 55] ]

\* len(text.strip()): letters, one space between words, the punctuation
RECURSIVE SumLen(_)
SumLen(ws) == IF ws = <<>> THEN 0 ELSE Len(Head(ws)) + SumLen(Tail(ws))

CharLen(text) ==
    SumLen(text.words) + text.terminators
        + (IF Len(text.words) > 0 THEN Len(text.words) - 1 ELSE 0)

\* PerspectiveAPIClassifier._process_scores, on the highest attribute score
_process_scores(max_score, thresholds) ==
    IF max_score >= thresholds.block THEN
        SafetyResult("block", "High toxicity detected",
                     IF max_score > 80 THEN "high" ELSE "medium",
                     85, TRUE, "perspective_api")
    ELSE IF max_score >= thresholds.review THEN
        SafetyResult("review", "Moderate toxicity detected",
                     IF max_score > 50 THEN "medium" ELSE "low",
                     85, max_score > 50, "perspective_api")
    ELSE
        SafetyResult("allow", "No significant toxicity detected", "none",
                     85, FALSE, "perspective_api")

\* What the remote toxicity service can answer: a failure inside
\* _analyze_text (network error, non-success status, a body that cannot be
\* processed), or the highest attribute score.
PerspectiveScores == {10, 30, 55, 85}

PerspectiveReplies ==
    {[ok |-> FALSE, max_score |-> 0]}
        \cup {[ok |-> TRUE, max_score |-> s] : s \in PerspectiveScores}

\* PerspectiveAPIClassifier.classify
PerspectiveClassify(self, text, context, reply) ==
    IF ~self.is_available THEN _fail_safe_result(self.fail_safe, "perspective_api")
    ELSE IF CharLen(text) < 3 THEN
        SafetyResult("allow", "Text too short for toxicity analysis", "none",
                     50, FALSE, "perspective_api")
    ELSE IF ~reply.ok THEN _fail_safe_result(self.fail_safe, "perspective_api")
    ELSE _process_scores(reply.max_score, AGE_THRESHOLDS[context.age_group])

TOXIC_KEYWORDS ==
    { [word |-> "hate", score |-> 80], [word |-> "stupid", score |-> 40],
      [word |-> "idiot", score |-> 60], [word |-> "dumb", score |-> 35],
      [word |-> "ugly", score |-> 45], [word |-> "kill", score |-> 70],
      [word |-> "die", score |-> 50], [word |-> "hurt", score |-> 40] }

SetMax(S) == CHOOSE m \in S : \A n \in S : n <= m

\* MockPerspectiveClassifier.classify
MockPerspectiveClassify(text, context) ==
    LET max_score ==
            SetMax({0} \cup {k.score : k \in {k \in TOXIC_KEYWORDS :
                                                Contains(text, <<k.word>>)}})
        thresholds == AGE_THRESHOLDS[context.age_group]
    IN  IF max_score >= thresholds.block THEN
            SafetyResult("block", "Mock toxicity detected", "medium", 70, TRUE,
                         "perspective_api_mock")
        ELSE IF max_score >= thresholds.review THEN
            SafetyResult("review", "Mock mild toxicity", "low", 60, FALSE,
                         "perspective_api_mock")
        ELSE
            SafetyResult("allow", "No toxicity detected (mock)", "none", 70, FALSE,
                         "perspective_api_mock")

(***************************************************************************)
(* classifiers/gemini_classifier.py                                        *)
(***************************************************************************)
GEMINI_PROBABILITY_MAP ==
    [NEGLIGIBLE |-> "none", LOW |-> "low", MEDIUM |-> "medium", HIGH |-> "high"]

\* The loop over candidate.safety_ratings: max_severity starts at NONE and is
\* replaced when `our_severity.value > max_severity.value`.
RECURSIVE NativeMax(_, _)
NativeMax(ratings, max_severity) ==
    IF ratings = <<>> THEN max_severity
    ELSE LET our_severity == GEMINI_PROBABILITY_MAP[Head(ratings)]
         IN  NativeMax(Tail(ratings),
                       IF StrGT(our_severity, max_severity) THEN our_severity
                                                            ELSE max_severity)

\* detected_categories is non-empty after the ratings loop
NativeDetected(ratings) ==
    \E i \in 1..Len(ratings) : StrGE(GEMINI_PROBABILITY_MAP[ratings[i]], "medium")

action_map == {"allow", "block", "redirect", "simplify", "review"}

\* GeminiSafetyClassifier._parse_response.  A response is
\* [block_reason, ratings, parse_error, json_ok, severity, suggested_action,
\*  is_safe, confidence]: the provider's block signal, the native probability
\* ratings, whether handling response.text raises an exception other than
\* JSONDecodeError (no text, a JSON value that is not an object), whether
\* response.text parses as JSON, and the fields of the parsed assessment.
_parse_response(self, response, age_group) ==
    LET max_severity == NativeMax(response.ratings, "none")
        severity == IF response.severity \in SafetySeverity
                    THEN response.severity ELSE max_severity
        action0 == IF response.suggested_action \in action_map
                   THEN response.suggested_action
                   ELSE IF ~response.is_safe THEN "block" ELSE "allow"
        young == age_group \in {"early_childhood", "middle_childhood"}
        action1 == IF young /\ StrGE(severity, "low") /\ action0 = "allow"
                   THEN "simplify" ELSE action0
        action2 == IF young /\ StrGE(severity, "medium") THEN "block" ELSE action1
    IN  IF response.block_reason THEN
            SafetyResult("block", "Gemini blocked content", "high", 95, TRUE,
                         "gemini_safety")
        ELSE IF response.parse_error THEN
            _fail_safe_result(self.fail_safe, "gemini_safety")
        ELSE IF ~response.json_ok THEN
            IF NativeDetected(response.ratings) /\ StrGE(max_severity, "medium")
            THEN SafetyResult("block", "Safety concern detected by Gemini ratings",
                              max_severity, 70, FALSE, "gemini_safety")
            ELSE SafetyResult("allow", "No safety concerns in Gemini ratings",
                              "none", 60, FALSE, "gemini_safety")
        ELSE
            SafetyResult(action2, "assessment", severity, response.confidence,
                         StrGE(severity, "high"), "gemini_safety")

GeminiResponse(block_reason, ratings, parse_error, json_ok, severity, suggested_action, is_safe, confidence) ==
    [block_reason |-> block_reason, ratings |-> ratings,
     parse_error |-> parse_error, json_ok |-> json_ok,
     severity |-> severity, suggested_action |-> suggested_action,
     is_safe |-> is_safe, confidence |-> confidence]

\* What the remote model can answer in one evaluation: an API error, the
\* provider's block signal, a response that cannot be handled, text that is
\* not JSON, or a parsed assessment.
GeminiReplies ==
    {[ok |-> FALSE, response |-> GeminiResponse(FALSE, <<>>, FALSE, FALSE, "none", "allow", TRUE, 0)]}
    \cup {[ok |-> TRUE, response |-> r] : r \in
            {GeminiResponse(TRUE, <<>>, FALSE, FALSE, "none", "allow", TRUE, 0),
             GeminiResponse(FALSE, <<"LOW">>, TRUE, FALSE, "none", "allow", TRUE, 0),
             GeminiResponse(FALSE, <<"HIGH">>, FALSE, FALSE, "none", "allow", TRUE, 0),
             GeminiResponse(FALSE, <<"NEGLIGIBLE">>, FALSE, FALSE, "none", "allow", TRUE, 0)}
            \cup {GeminiResponse(FALSE, <<"LOW">>, FALSE, TRUE, s, a, a = "allow", 90) :
                    s \in {"low", "high"},
                    a \in {"allow", "review", "block"}}}

\* GeminiSafetyClassifier.classify
GeminiClassify(self, text, context, reply) ==
    IF ~self.is_available THEN _fail_safe_result(self.fail_safe, "gemini_safety")
    ELSE IF ~reply.ok THEN _fail_safe_result(self.fail_safe, "gemini_safety")
    ELSE _parse_response(self, reply.response, context.age_group)

(***************************************************************************)
(* review_queue.py                                                         *)
(***************************************************************************)
\* HumanReviewQueue._calculate_priority
RECURSIVE MaxSeverity(_, _)
MaxSeverity(classifier_results, max_severity) ==
    IF classifier_results = <<>> THEN max_severity
    ELSE MaxSeverity(Tail(classifier_results),
                     IF StrGT(Head(classifier_results).severity, max_severity)
                     THEN Head(classifier_results).severity ELSE max_severity)

_calculate_priority(classifier_results) ==
    LET max_severity == MaxSeverity(classifier_results, "none")
        has_parent_alert ==
            \E k \in 1..Len(classifier_results) : classifier_results[k].parent_alert
        low_confidence ==
            \E k \in 1..Len(classifier_results) : classifier_results[k].confidence < 50
    IN  IF max_severity = "critical" THEN "urgent"
        ELSE IF has_parent_alert /\ StrGE(max_severity, "high") THEN "urgent"
        ELSE IF StrGE(max_severity, "high") \/ has_parent_alert THEN "high"
        ELSE IF StrGE(max_severity, "medium") \/ low_confidence THEN "medium"
        ELSE "low"

\* A fresh ticket id (uuid4): ids are numbered in creation order.
NewId == Len(items) + 1

\* None, for reviewed_at
NoTime == -1

ReviewQueueItem(id, content, classifier_results, created_at, priority) ==
    [id |-> id, content |-> content, classifier_results |-> classifier_results,
     created_at |-> created_at, status |-> "pending", priority |-> priority,
     reviewer_id |-> "null", reviewed_at |-> NoTime,
     review_decision |-> "null", review_notes |-> "null"]

\* ReviewQueueItem.age_hours
age_hours(item) == now - item.created_at

\* The queue is constructed with auto_expire_hours = 1 and the default
\* default_action_on_expire
auto_expire_hours == 1

default_action_on_expire == "block"

\* deque(maxlen=max_queue_size).append
DequeAppend(q, x) ==
    IF Len(q) >= MaxQueueSize THEN Append(Tail(q), x) ELSE Append(q, x)

\* add_for_review that attaches only the last layer's verdict to the ticket
add_for_review_LastVerdictOnly(content, classifier_results, priority) ==
    LET last == <<classifier_results[Len(classifier_results)]>>
    IN  /\ items' = Append(items, ReviewQueueItem(NewId, content, last, now,
                                                  _calculate_priority(last)))
        /\ queue' = DequeAppend(queue, NewId)
        /\ items_by_id' = items_by_id \cup {NewId}

\* HumanReviewQueue.add_for_review; priority "null" is None.  The new item's
\* id is NewId (no urgent callback is registered on the queue).
add_for_review(content, classifier_results, priority) ==
    LET p == IF priority = "null" THEN _calculate_priority(classifier_results)
                                  ELSE priority
    IN  /\ items' = Append(items, ReviewQueueItem(NewId, content,
                                                  classifier_results, now, p))
        /\ queue' = DequeAppend(queue, NewId)
        /\ items_by_id' = items_by_id \cup {NewId}

InQueue(id) == \E k \in 1..Len(queue) : queue[k] = id

\* _expire_old_items that flags the ticket without recording a decision
_expire_old_items_NoDecision ==
    [id \in 1..Len(items) |->
        IF /\ InQueue(id)
           /\ items[id].status = "pending"
           /\ age_hours(items[id]) > auto_expire_hours
        THEN [items[id] EXCEPT !.status = "expired"]
        ELSE items[id]]

\* HumanReviewQueue._expire_old_items: the tickets after the sweep over
\* self._queue (no expiry callback is registered on the queue)
_expire_old_items ==
    [id \in 1..Len(items) |->
        IF /\ InQueue(id)
           /\ items[id].status = "pending"
           /\ age_hours(items[id]) > auto_expire_hours
        THEN [items[id] EXCEPT !.status = "expired",
                               !.review_decision = default_action_on_expire]
        ELSE items[id]]

priority_order == [urgent |-> 0, high |-> 1, medium |-> 2, low |-> 3]

\* The sort key with the age not negated: newest first within a priority
KeyLess_NewestFirst(its, a, b) ==
    \/ priority_order[its[a].priority] < priority_order[its[b].priority]
    \/ /\ priority_order[its[a].priority] = priority_order[its[b].priority]
       /\ age_hours(its[a]) < age_hours(its[b])

\* The sort key (priority_order[x.priority], -x.age_hours) of a is less than
\* that of b
KeyLess(its, a, b) ==
    \/ priority_order[its[a].priority] < priority_order[its[b].priority]
    \/ /\ priority_order[its[a].priority] = priority_order[its[b].priority]
       /\ -age_hours(its[a]) < -age_hours(its[b])

\* list.sort is stable: x goes before the first element with a greater key
RECURSIVE SortedInsert(_, _, _)
SortedInsert(its, sorted, x) ==
    IF sorted = <<>> THEN <<x>>
    ELSE IF KeyLess(its, x, Head(sorted)) THEN <<x>> \o sorted
    ELSE <<Head(sorted)>> \o SortedInsert(its, Tail(sorted), x)

RECURSIVE StableSort(_, _)
StableSort(its, ids) ==
    IF ids = <<>> THEN <<>>
    ELSE SortedInsert(its, StableSort(its, SubSeq(ids, 1, Len(ids) - 1)),
                      ids[Len(ids)])

\* pending[:limit]
Slice(seq, limit) ==
    IF limit >= 0
    THEN SubSeq(seq, 1, IF limit < Len(seq) THEN limit ELSE Len(seq))
    ELSE SubSeq(seq, 1, IF Len(seq) + limit > 0 THEN Len(seq) + limit ELSE 0)

\* The list get_pending_items returns (as ticket ids) once the sweep has left
\* the tickets as its
PendingItems(its, limit, priority) ==
    LET pending == SelectSeq(queue, LAMBDA id :
                        /\ its[id].status = "pending"
                        /\ (priority = "null" \/ its[id].priority = priority))
    IN  Slice(StableSort(its, pending), limit)

\* HumanReviewQueue.get_pending_items: the tickets after the sweep and the
\* returned list
get_pending_items(limit, priority) ==
    [items |-> _expire_old_items,
     value |-> PendingItems(_expire_old_items, limit, priority)]

Reviewed(item, decision, reviewer_id, notes) ==
    [item EXCEPT !.status = IF decision = "allow" THEN "approved" ELSE "rejected",
                 !.reviewer_id = reviewer_id,
                 !.reviewed_at = now,
                 !.review_decision = decision,
                 !.review_notes = notes]

\* submit_review that does not look at the ticket's status
submit_review_AnyStatus(item_id, decision, reviewer_id, notes) ==
    IF item_id \notin items_by_id
    THEN [items |-> items, value |-> FALSE]
    ELSE [items |-> [items EXCEPT ![item_id] =
                        Reviewed(@, decision, reviewer_id, notes)],
          value |-> TRUE]

\* submit_review that stamps the reviewer on a ticket it refuses
submit_review_StampsRefused(item_id, decision, reviewer_id, notes) ==
    IF item_id \notin items_by_id
    THEN [items |-> items, value |-> FALSE]
    ELSE IF items[item_id].status # "pending"
    THEN [items |-> [items EXCEPT ![item_id].reviewer_id = reviewer_id],
          value |-> FALSE]
    ELSE [items |-> [items EXCEPT ![item_id] =
                        Reviewed(@, decision, reviewer_id, notes)],
          value |-> TRUE]

\* HumanReviewQueue.submit_review: the tickets afterwards and the returned
\* bool
submit_review(item_id, decision, reviewer_id, notes) ==
    IF item_id \notin items_by_id
    THEN [items |-> items, value |-> FALSE]
    ELSE IF items[item_id].status # "pending"
    THEN [items |-> items, value |-> FALSE]
    ELSE [items |-> [items EXCEPT ![item_id] =
                        Reviewed(@, decision, reviewer_id, notes)],
          value |-> TRUE]

\* HumanReviewQueue.get_decision; "null" is None
get_decision(item_id) ==
    IF item_id \notin items_by_id THEN "null"
    ELSE IF items[item_id].status = "pending" THEN "null"
    ELSE IF items[item_id].status = "expired" THEN default_action_on_expire
    ELSE items[item_id].review_decision

\* What the last call on the queue was, its arguments, the value it returned
\* and the tickets as they were when it started
Ret(op, args, value, before) ==
    [op |-> op, args |-> args, value |-> value, before |-> before]

NoRet == Ret("none", <<>>, "null", <<>>)

\* One classify call: the classifier's name and configuration, the arguments,
\* what the remote service answered and the verdict classify returned
Probe(name, self, text, context, reply, verdict) ==
    [name |-> name, self |-> self, text |-> text, context |-> context,
     reply |-> reply, verdict |-> verdict]

NoProbe == Probe("none", ChainClassifier, Text(<<>>, 0), "null", "null", SafetyResult("null", "null", "null", 0, FALSE, "null"))

\* The sweep of a get_pending_items call: whether it is running, how many
\* tickets of the deque its iterator has yielded, whether it is suspended in
\* an expiry callback, whether the deque was mutated since the iterator was
\* made, whether the call raised, whether it returned, and the tickets that
\* were due when it started
Sweep(active, pos, suspended, mutated, failed, finished, due) ==
    [active |-> active, pos |-> pos, suspended |-> suspended,
     mutated |-> mutated, failed |-> failed, finished |-> finished, due |-> due]

NoSweep == Sweep(FALSE, 0, FALSE, FALSE, FALSE, FALSE, {})

\* The event loop's thread: what the calling coroutine is doing, how many
\* layers the evaluation has run, and the steps other coroutines have taken
Loop(caller, via, layers_done, others) ==
    [caller |-> caller, via |-> via, layers_done |-> layers_done, others |-> others]

NoLoop == Loop("idle", "none", 0, 0)

(***************************************************************************)
(* multi_layer.py                                                          *)
(***************************************************************************)
early_termination_confidence == 90

\* The priority table with REVIEW and REDIRECT exchanged
action_priority_ReviewBelowRedirect ==
    [block |-> 6, review |-> 4, redirect |-> 5, warn_parent |-> 3,
     simplify |-> 2, allow |-> 1]

action_priority ==
    [block |-> 6, review |-> 5, redirect |-> 4, warn_parent |-> 3,
     simplify |-> 2, allow |-> 1]

Decision(action, reason, severity) ==
    [action |-> action, reason |-> reason, severity |-> severity]

\* The merge taking every new verdict as the running decision
_merge_decision_LastWins(current, new_result) ==
    Decision(new_result.action, new_result.reason, new_result.severity)

\* MultiLayerSafetyEvaluator._merge_decision
_merge_decision(current, new_result) ==
    IF action_priority[new_result.action] > action_priority[current.action]
    THEN Decision(new_result.action, new_result.reason, new_result.severity)
    ELSE IF /\ action_priority[new_result.action] = action_priority[current.action]
            /\ StrGT(new_result.severity, current.severity)
    THEN Decision(current.action, new_result.reason, new_result.severity)
    ELSE current

\* The context without the parent's blocked topics
_get_context_NoBlockedTopics == [child_profile EXCEPT !.blocked_topics = {}]

\* MultiLayerSafetyEvaluator._get_context
_get_context == child_profile

\* None, where a SafetyResult is optional
NoSafetyResult == SafetyResult("null", "null", "null", 0, FALSE, "null")

\* MultiLayerSafetyEvaluator._check_output_complexity: the SIMPLIFY result, or
\* None.  The averages are compared without dividing:
\* sum/len > 6 iff sum > 6*len.
_check_output_complexity(text) ==
    LET n == Len(text.words)
        chars == SumLen(text.words) + text.terminators
        sentence_count == IF text.terminators > 1 THEN text.terminators ELSE 1
        breach(word_len, sentence_len) ==
            chars > word_len * n \/ n > sentence_len * sentence_count
        simplify(reason) ==
            SafetyResult("simplify", reason, "low", 70, FALSE, "complexity_check")
    IN  IF n = 0 THEN NoSafetyResult
        ELSE IF child_profile.age_group = "early_childhood" /\ breach(6, 12)
        THEN simplify("Response may be too complex for early childhood")
        ELSE IF child_profile.age_group = "middle_childhood" /\ breach(7, 18)
        THEN simplify("Response may be too complex for middle childhood")
        ELSE NoSafetyResult

\* MultiLayerSafetyEvaluator.__init__: the chain built from the flags and
\* from whether an API key is configured (is_available of the two remote
\* classifiers).
BuildChain(use_gemini, use_perspective, use_mock_perspective, api_key) ==
    <<"regex_blocklist">>
    \o (IF use_perspective /\ use_mock_perspective THEN <<"perspective_api_mock">>
        ELSE IF use_perspective /\ api_key THEN <<"perspective_api">>
        ELSE <<>>)
    \o (IF use_gemini /\ api_key THEN <<"gemini_safety">> ELSE <<>>)

\* What classifier.classify(text, context) can return, over the replies of
\* the remote services.
Verdicts(name, text, context) ==
    CASE name = "regex_blocklist" -> {RegexClassify(text, context)}
      [] name = "perspective_api" ->
            {PerspectiveClassify(ChainClassifier, text, context, r) :
                r \in PerspectiveReplies}
      [] name = "perspective_api_mock" -> {MockPerspectiveClassify(text, context)}
      [] name = "gemini_safety" ->
            {GeminiClassify(ChainClassifier, text, context, r) : r \in GeminiReplies}

\* The early-termination test with a strict comparison
EarlyTermination_Strict(layer_result) ==
    /\ layer_result.action = "block"
    /\ layer_result.confidence > early_termination_confidence

\* The early-termination test of evaluate's loop
EarlyTermination(layer_result) ==
    /\ layer_result.action = "block"
    /\ layer_result.confidence >= early_termination_confidence

\* The recorded verdict taken from the classifier's own fail-safe result
FailedLayerResult_FailSafe(name) == _fail_safe_result(TRUE, name)

\* The verdict evaluate records for a classifier whose classify raised
FailedLayerResult(name) ==
    SafetyResult("review", "Classifier failed", "medium", 0, FALSE, name)

\* The except branch merging the failure verdict into the running decision
OnClassifierError_Merged(current, name) ==
    _merge_decision(current, FailedLayerResult(name))

\* The running decision evaluate's except branch assigns
OnClassifierError(current, name) ==
    Decision("review", "Safety evaluation incomplete", "medium")

NoText == Text(<<>>, 0)

InitialDecision == Decision("allow", "No safety concerns detected", "none")

\* The locals of evaluate.  invoked, raised, merged_action and tickets_before
\* record the call's history: the classifiers whose classify was called, the
\* chain positions whose classify raised, current_action when the loop was
\* left, and the number of tickets created before the call.
NoCall ==
    [entry |-> "none", text |-> NoText, skip_human_review |-> FALSE,
     layer_results |-> <<>>, layers_executed |-> <<>>, current |-> InitialDecision,
     invoked |-> <<>>, raised |-> {}, merged_action |-> "null",
     tickets_before |-> 0]

MultiLayerResult(final, layer_results, review_item_id, layers_executed) ==
    [final_action |-> final.action, final_reason |-> final.reason,
     final_severity |-> final.severity, layer_results |-> layer_results,
     review_item_id |-> review_item_id, layers_executed |-> layers_executed]

NoResult == MultiLayerResult(Decision("null", "null", "null"), <<>>, 0, <<>>)

Begin(entry, text, skip_human_review) ==
    /\ pc = "idle"
    /\ Len(items) < MaxTickets
    /\ pc' = "classify"
    /\ call' = [NoCall EXCEPT !.entry = entry, !.text = text,
                              !.skip_human_review = skip_human_review,
                              !.tickets_before = Len(items)]
    /\ UNCHANGED <<evaluator_vars, queue_vars, result, harness_vars>>

\* MultiLayerSafetyEvaluator.evaluate(text, skip_human_review) is called
Evaluate ==
    \E text \in Texts, skip_human_review \in BOOLEAN :
        Begin("evaluate", text, skip_human_review)

\* MultiLayerSafetyEvaluator.evaluate_output(response) is called: it runs
\* evaluate(response, skip_human_review=True)
EvaluateOutput ==
    \E text \in Texts : Begin("evaluate_output", text, TRUE)

\* SafetyAgent.post_check(output) is called: it runs evaluate(output).  The
\* agent builds its evaluator with use_mock_perspective=False.
PostCheck ==
    /\ \A k \in 1..Len(classifiers) : classifiers[k] # "perspective_api_mock"
    /\ \E text \in Texts : Begin("post_check", text, FALSE)

\* The position in the chain of the classifier the loop is at
Position == Len(call.layer_results) + 1

AfterLayer(left_loop) ==
    IF left_loop \/ Position = Len(classifiers) THEN "tail" ELSE "classify"

\* One iteration of evaluate's loop in which classify returns
ClassifierReturns ==
    /\ pc = "classify"
    /\ \E v \in Verdicts(classifiers[Position], call.text, _get_context) :
        /\ call' = [call EXCEPT
                        !.layer_results = Append(@, v),
                        !.layers_executed = Append(@, classifiers[Position]),
                        !.invoked = Append(@, classifiers[Position]),
                        !.current = _merge_decision(@, v)]
        /\ pc' = AfterLayer(EarlyTermination(v))
    /\ UNCHANGED <<evaluator_vars, queue_vars, result, harness_vars>>

\* One iteration of evaluate's loop in which classify raises an Exception
ClassifierRaises ==
    /\ pc = "classify"
    /\ call' = [call EXCEPT
                    !.layer_results = Append(@, FailedLayerResult(classifiers[Position])),
                    !.invoked = Append(@, classifiers[Position]),
                    !.raised = @ \cup {Position},
                    !.current = OnClassifierError(@, classifiers[Position])]
    /\ pc' = AfterLayer(FALSE)
    /\ UNCHANGED <<evaluator_vars, queue_vars, result, harness_vars>>

\* evaluate_output's use of the complexity result on the MultiLayerResult
\* that evaluate returned
ApplyComplexity(res, complexity_result) ==
    IF complexity_result = NoSafetyResult THEN res
    ELSE [res EXCEPT
            !.layer_results = Append(@, complexity_result),
            !.final_action = IF StrGT(complexity_result.action, res.final_action)
                             THEN complexity_result.action ELSE @,
            !.final_reason = IF StrGT(complexity_result.action, res.final_action)
                             THEN complexity_result.reason ELSE @]

\* The rest of evaluate after the loop (the review queue, the result), and
\* for evaluate_output the complexity check on what evaluate returned
EvaluateTail ==
    /\ pc = "tail"
    /\ LET to_review == call.current.action = "review" /\ ~call.skip_human_review
           final == IF to_review
                    THEN Decision("block", "Content flagged for human review",
                                  call.current.severity)
                    ELSE call.current
           res == MultiLayerResult(final, call.layer_results,
                                   IF to_review THEN NewId ELSE 0,
                                   call.layers_executed)
           young == child_profile.age_group \in {"early_childhood", "middle_childhood"}
       IN  /\ IF to_review
              THEN add_for_review(call.text, call.layer_results, "null")
              ELSE UNCHANGED queue_vars
           /\ result' = IF call.entry = "evaluate_output" /\ young
                        THEN ApplyComplexity(res, _check_output_complexity(call.text))
                        ELSE res
    /\ call' = [call EXCEPT !.merged_action = call.current.action]
    /\ pc' = "returned"
    /\ UNCHANGED <<evaluator_vars, harness_vars>>

\* The caller takes the result; the evaluator is ready for the next call
Return ==
    /\ pc = "returned"
    /\ pc' = "idle"
    /\ call' = NoCall
    /\ result' = NoResult
    /\ UNCHANGED <<evaluator_vars, queue_vars, harness_vars>>

(***************************************************************************)
(* The evaluator after construction, for a child profile and a chain.      *)
(***************************************************************************)
AllowedTopicSets == {{}, {<<"bomb">>, <<"alcohol">>}}

BlockedTopicSets == {{}, {<<"alcohol">>}}

ChildProfile(age_group, allowed_topics, blocked_topics) ==
    [age_group |-> age_group, allowed_topics |-> allowed_topics,
     blocked_topics |-> blocked_topics]

\* The fold of _merge_decision: the verdicts merged so far, the running
\* decision, and the running decision before the last verdict was merged.
NoMerge == [current |-> InitialDecision, before |-> InitialDecision, merged |-> <<>>]

InitQueue ==
    /\ queue = <<>>
    /\ items_by_id = {}
    /\ items = <<>>

Init ==
    /\ \E g \in AgeGroup, a \in AllowedTopicSets, b \in BlockedTopicSets :
            child_profile = ChildProfile(g, a, b)
    /\ \E use_gemini \in BOOLEAN, use_perspective \in BOOLEAN,
          use_mock_perspective \in BOOLEAN, api_key \in BOOLEAN :
            classifiers = BuildChain(use_gemini, use_perspective,
                                     use_mock_perspective, api_key)
    /\ InitQueue
    /\ pc = "idle"
    /\ call = NoCall
    /\ result = NoResult
    /\ merge = NoMerge
    /\ probe = NoProbe
    /\ now = 0
    /\ ret = NoRet
    /\ sweep = NoSweep
    /\ loop = NoLoop
    /\ _on_urgent_item = <<>>

Next ==
    \/ Evaluate
    \/ EvaluateOutput
    \/ PostCheck
    \/ ClassifierReturns
    \/ ClassifierRaises
    \/ EvaluateTail
    \/ Return

Spec == Init /\ [][Next]_vars

(***************************************************************************)
(* _merge_decision as a pure function: folded, left to right, over every   *)
(* list of at most MaxMergeLen verdicts, from the decision evaluate starts *)
(* with.  Verdict k of a list carries reason ReasonTags[k].                *)
(***************************************************************************)
ReasonTags == <<"r1", "r2", "r3", "r4", "r5", "r6">>

InitMerge ==
    /\ child_profile = ChildProfile("middle_childhood", {}, {})
    /\ classifiers = <<"regex_blocklist">>
    /\ InitQueue
    /\ pc = "merge"
    /\ call = NoCall
    /\ result = NoResult
    /\ merge = NoMerge
    /\ probe = NoProbe
    /\ now = 0
    /\ ret = NoRet
    /\ sweep = NoSweep
    /\ loop = NoLoop
    /\ _on_urgent_item = <<>>

\* current = _merge_decision(current, new_result), for any next verdict
MergeStep ==
    /\ pc = "merge"
    /\ Len(merge.merged) < MaxMergeLen
    /\ \E action \in SafetyAction, severity \in SafetySeverity :
        LET new_result ==
                SafetyResult(action, ReasonTags[Len(merge.merged) + 1], severity,
                             100, FALSE, "layer")
        IN  merge' = [before |-> merge.current,
                      current |-> _merge_decision(merge.current, new_result),
                      merged |-> Append(merge.merged, new_result)]
    /\ UNCHANGED <<pipeline_vars, probe, now, ret, sweep, loop, _on_urgent_item>>

NextMerge == MergeStep

SpecMerge == InitMerge /\ [][NextMerge]_vars

(***************************************************************************)
(* classify of the two remote classifiers as a function of the classifier's *)
(* configuration, the text, the context and the remote service's answer.   *)
(***************************************************************************)
InitClassify ==
    /\ child_profile = ChildProfile("middle_childhood", {}, {})
    /\ classifiers = <<"regex_blocklist">>
    /\ InitQueue
    /\ pc = "classify_probe"
    /\ call = NoCall
    /\ result = NoResult
    /\ merge = NoMerge
    /\ probe = NoProbe
    /\ now = 0
    /\ ret = NoRet
    /\ sweep = NoSweep
    /\ loop = NoLoop
    /\ _on_urgent_item = <<>>

ProbeContexts == {ChildProfile(g, {}, {}) : g \in AgeGroup}

\* PerspectiveAPIClassifier(fail_safe=...).classify(text, context)
ClassifyPerspective ==
    /\ pc = "classify_probe"
    /\ probe = NoProbe
    /\ \E fail_safe \in BOOLEAN, is_available \in BOOLEAN, text \in Texts,
          context \in ProbeContexts, reply \in PerspectiveReplies :
        LET self == Classifier(fail_safe, is_available)
        IN  probe' = Probe("perspective_api", self, text, context, reply,
                           PerspectiveClassify(self, text, context, reply))
    /\ UNCHANGED <<pipeline_vars, merge, now, ret, sweep, loop, _on_urgent_item>>

\* The native rating lists of a response: one or two harm ratings
NativeRatingLists ==
    LET P == {"NEGLIGIBLE", "LOW", "MEDIUM", "HIGH"}
    IN  {<<>>} \cup {<<a>> : a \in P} \cup {<<a, b>> : a \in P, b \in P}

\* What the remote model can answer to a single classify call: the answers of
\* the chain, every native rating list under text that is not JSON, and every
\* severity and suggested action in a parsed assessment.
ProbeGeminiReplies ==
    GeminiReplies
    \cup {[ok |-> TRUE, response |-> GeminiResponse(FALSE, r, FALSE, FALSE, "none", "allow", TRUE, 0)] :
            r \in NativeRatingLists}
    \cup {[ok |-> TRUE, response |-> GeminiResponse(FALSE, <<"LOW">>, FALSE, TRUE, sv, a, a = "allow", 90)] :
            sv \in SafetySeverity, a \in action_map}

\* GeminiSafetyClassifier(fail_safe=...).classify(text, context)
ClassifyGemini ==
    /\ pc = "classify_probe"
    /\ probe = NoProbe
    /\ \E fail_safe \in BOOLEAN, is_available \in BOOLEAN, text \in Texts,
          context \in ProbeContexts, reply \in ProbeGeminiReplies :
        LET self == Classifier(fail_safe, is_available)
        IN  probe' = Probe("gemini_safety", self, text, context, reply,
                           GeminiClassify(self, text, context, reply))
    /\ UNCHANGED <<pipeline_vars, merge, now, ret, sweep, loop, _on_urgent_item>>

\* Texts for the offline mock: one per entry of TOXIC_KEYWORDS, and one
\* that holds none of them
MockTexts ==
    {Text(<<"you", k.word>>, 0) : k \in TOXIC_KEYWORDS}
        \cup {Text(<<"why", "is", "the", "sky", "blue">>, 1)}

\* The highest TOXIC_KEYWORDS score of the words of a text, 0 without any
MockMaxScore(text) ==
    SetMax({0} \cup {k.score : k \in {k \in TOXIC_KEYWORDS :
                                        Contains(text, <<k.word>>)}})

\* MockPerspectiveClassifier().classify(text, context); no service answers,
\* the score is the one the keywords give
ClassifyMockPerspective ==
    /\ pc = "classify_probe"
    /\ probe = NoProbe
    /\ \E text \in MockTexts, context \in ProbeContexts :
        probe' = Probe("perspective_api_mock", Classifier(TRUE, TRUE), text,
                       context, [ok |-> TRUE, max_score |-> MockMaxScore(text)],
                       MockPerspectiveClassify(text, context))
    /\ UNCHANGED <<pipeline_vars, merge, now, ret, sweep, loop, _on_urgent_item>>

NextClassify ==
    \/ ClassifyPerspective
    \/ ClassifyGemini
    \/ ClassifyMockPerspective

SpecClassify == InitClassify /\ [][NextClassify]_vars

(***************************************************************************)
(* The review queue under any sequence of calls, with time passing.        *)
(***************************************************************************)
MaxItems == 3

MaxClock == 2

InitReviewQueue ==
    /\ child_profile = ChildProfile("middle_childhood", {}, {})
    /\ classifiers = <<"regex_blocklist">>
    /\ InitQueue
    /\ pc = "queue"
    /\ call = NoCall
    /\ result = NoResult
    /\ merge = NoMerge
    /\ probe = NoProbe
    /\ now = 0
    /\ ret = NoRet
    /\ sweep = NoSweep
    /\ loop = NoLoop
    /\ _on_urgent_item = <<>>

\* The verdict lists tickets are created with
TicketVerdictLists ==
    { <<SafetyResult("review", "Moderate toxicity detected", "medium", 85, TRUE,
                     "perspective_api")>>,
      <<SafetyResult("review", "assessment", "low", 90, FALSE, "gemini_safety")>> }

TicketText == Text(<<"you", "are", "dumb">>, 0)

\* add_for_review(content, child_id, classifier_results, priority) is called
QueueAdd ==
    /\ pc = "queue"
    /\ Len(items) < MaxItems
    /\ \E classifier_results \in TicketVerdictLists, priority \in {"null", "low"} :
        /\ priority = "low" => ~classifier_results[1].parent_alert
        /\ add_for_review(TicketText, classifier_results, priority)
        /\ ret' = Ret("add_for_review", <<classifier_results, priority>>, NewId, items)
    /\ UNCHANGED <<evaluator_vars, pc, call, result, merge, probe, now, sweep, loop, _on_urgent_item>>

\* get_pending_items(limit, priority) is called
QueueGetPending ==
    /\ pc = "queue"
    /\ \E limit \in {1, 10}, priority \in {"null", "high"} :
        LET r == get_pending_items(limit, priority)
        IN  /\ items' = r.items
            /\ ret' = Ret("get_pending_items", <<limit, priority>>, r.value, items)
    /\ UNCHANGED <<evaluator_vars, queue, items_by_id, pc, call, result, merge,
                   probe, now, sweep, loop, _on_urgent_item>>

\* submit_review(item_id, decision, reviewer_id, notes) is called
QueueSubmitReview ==
    /\ pc = "queue"
    /\ \E item_id \in 1..MaxItems, decision \in {"allow", "block"} :
        LET r == submit_review(item_id, decision, "reviewer", "notes")
        IN  /\ items' = r.items
            /\ ret' = Ret("submit_review", <<item_id, decision>>, r.value, items)
    /\ UNCHANGED <<evaluator_vars, queue, items_by_id, pc, call, result, merge,
                   probe, now, sweep, loop, _on_urgent_item>>

\* get_decision(item_id) is called
QueueGetDecision ==
    /\ pc = "queue"
    /\ \E item_id \in 1..MaxItems :
        ret' = Ret("get_decision", <<item_id>>, get_decision(item_id), items)
    /\ UNCHANGED <<evaluator_vars, queue_vars, pc, call, result, merge, probe, now, sweep, loop, _on_urgent_item>>

\* An hour passes between two calls
Tick ==
    /\ pc = "queue"
    /\ now < MaxClock
    /\ now' = now + 1
    /\ ret' = NoRet
    /\ UNCHANGED <<evaluator_vars, queue_vars, pc, call, result, merge, probe, sweep, loop, _on_urgent_item>>

NextReviewQueue ==
    \/ QueueAdd
    \/ QueueGetPending
    \/ QueueSubmitReview
    \/ QueueGetDecision
    \/ Tick

SpecReviewQueue == InitReviewQueue /\ [][NextReviewQueue]_vars

(***************************************************************************)
(* _calculate_priority as a function of the verdict list.                  *)
(***************************************************************************)
PriorityVerdicts ==
    { SafetyResult("review", "verdict", severity, confidence, parent_alert, "layer") :
        severity \in SafetySeverity, confidence \in {40, 90},
        parent_alert \in BOOLEAN }

PriorityVerdictLists ==
    {<<v>> : v \in PriorityVerdicts}
        \cup {<<v, w>> : v \in PriorityVerdicts, w \in PriorityVerdicts}

InitPriority ==
    /\ child_profile = ChildProfile("middle_childhood", {}, {})
    /\ classifiers = <<"regex_blocklist">>
    /\ InitQueue
    /\ pc = "priority"
    /\ call = NoCall
    /\ result = NoResult
    /\ merge = NoMerge
    /\ probe = NoProbe
    /\ now = 0
    /\ ret = NoRet
    /\ sweep = NoSweep
    /\ loop = NoLoop
    /\ _on_urgent_item = <<>>

\* priority = self._calculate_priority(classifier_results)
CalculatePriority ==
    /\ pc = "priority"
    /\ ret = NoRet
    /\ \E classifier_results \in PriorityVerdictLists :
        ret' = Ret("_calculate_priority", classifier_results,
                   _calculate_priority(classifier_results), items)
    /\ UNCHANGED <<pipeline_vars, merge, probe, now, sweep, loop, _on_urgent_item>>

NextPriority == CalculatePriority

SpecPriority == InitPriority /\ [][NextPriority]_vars

(***************************************************************************)
(* One HumanReviewQueue shared by concurrent callers.  get_pending_items   *)
(* awaits the expiry callbacks inside its loop over the deque              *)
(* (_expire_old_items), so other coroutines run while it is suspended      *)
(* there; callers on other threads (the synchronous facade runs            *)
(* asyncio.run on a worker thread) run between any two of its steps.  No   *)
(* method of the queue takes a lock.                                       *)
(***************************************************************************)
InitShared ==
    /\ child_profile = ChildProfile("middle_childhood", {}, {})
    /\ classifiers = <<"regex_blocklist">>
    /\ InitQueue
    /\ pc \in {"shared_loop", "shared_threads"}
    /\ call = NoCall
    /\ result = NoResult
    /\ merge = NoMerge
    /\ probe = NoProbe
    /\ now = 0
    /\ ret = NoRet
    /\ sweep = NoSweep
    /\ loop = NoLoop
    /\ _on_urgent_item = <<>>

\* Another caller's operation can run now: no sweep is running, the sweep is
\* suspended in an expiry callback, or the caller is on another thread
Interleavable ==
    /\ pc \in {"shared_loop", "shared_threads"}
    /\ \/ ~sweep.active
       \/ sweep.suspended
       \/ pc = "shared_threads"

\* The deque's state counter changes on append: an iterator made before sees
\* it at its next step
Mutated == IF sweep.active THEN [sweep EXCEPT !.mutated = TRUE] ELSE sweep

\* add_for_review from another caller
SharedAdd ==
    /\ Interleavable
    /\ Len(items) < MaxItems
    /\ \E classifier_results \in TicketVerdictLists :
        /\ classifier_results[1].parent_alert
        /\ add_for_review(TicketText, classifier_results, "null")
        /\ ret' = Ret("add_for_review", <<"null">>, NewId, <<>>)
    /\ sweep' = Mutated
    /\ UNCHANGED <<evaluator_vars, pc, call, result, merge, probe, now, loop, _on_urgent_item>>

\* submit_review from another caller
SharedSubmitReview ==
    /\ Interleavable
    /\ \E item_id \in 1..MaxItems, decision \in {"allow"} :
        LET r == submit_review(item_id, decision, "reviewer", "notes")
        IN  /\ items' = r.items
            /\ ret' = Ret("submit_review", <<item_id, decision>>, r.value, <<>>)
    /\ UNCHANGED <<evaluator_vars, queue, items_by_id, pc, call, result, merge,
                   probe, now, sweep, loop, _on_urgent_item>>

\* An hour passes
SharedTick ==
    /\ pc \in {"shared_loop", "shared_threads"}
    /\ now < MaxClock
    /\ now' = now + 1
    /\ UNCHANGED <<evaluator_vars, queue_vars, pc, call, result, merge, probe,
                   ret, sweep, loop, _on_urgent_item>>

\* get_pending_items is called: _expire_old_items makes the deque's iterator
SweepBegin ==
    /\ pc \in {"shared_loop", "shared_threads"}
    /\ ~sweep.active
    /\ sweep' = Sweep(TRUE, 0, FALSE, FALSE, FALSE, FALSE,
                      {id \in 1..Len(items) :
                          /\ InQueue(id)
                          /\ items[id].status = "pending"
                          /\ age_hours(items[id]) > auto_expire_hours})
    /\ ret' = NoRet
    /\ UNCHANGED <<pipeline_vars, merge, probe, now, loop, _on_urgent_item>>

\* The sweep's loop asks its iterator for the next ticket (after the expiry
\* callback resumed, if it was suspended): RuntimeError "deque mutated during
\* iteration" leaves get_pending_items; at the end of the deque the pending
\* tickets are filtered, sorted and returned; a due ticket is expired and
\* the callback awaited.
SweepNext ==
    /\ pc \in {"shared_loop", "shared_threads"}
    /\ sweep.active
    /\ IF sweep.mutated
       THEN /\ sweep' = [sweep EXCEPT !.active = FALSE, !.suspended = FALSE,
                                      !.failed = TRUE]
            /\ ret' = Ret("get_pending_items", <<10, "null">>, "RuntimeError", <<>>)
            /\ UNCHANGED items
       ELSE IF sweep.pos = Len(queue)
       THEN /\ sweep' = [sweep EXCEPT !.active = FALSE, !.suspended = FALSE,
                                      !.finished = TRUE]
            /\ ret' = Ret("get_pending_items", <<10, "null">>,
                          PendingItems(items, 10, "null"), <<>>)
            /\ UNCHANGED items
       ELSE LET id == queue[sweep.pos + 1]
                due == /\ items[id].status = "pending"
                       /\ age_hours(items[id]) > auto_expire_hours
            IN  /\ sweep' = [sweep EXCEPT !.pos = @ + 1, !.suspended = due]
                /\ items' = IF due
                            THEN [items EXCEPT ![id].status = "expired",
                                               ![id].review_decision =
                                                    default_action_on_expire]
                            ELSE items
                /\ UNCHANGED ret
    /\ UNCHANGED <<evaluator_vars, queue, items_by_id, pc, call, result, merge,
                   probe, now, loop, _on_urgent_item>>

NextShared ==
    \/ SharedAdd
    \/ SharedSubmitReview
    \/ SharedTick
    \/ SweepBegin
    \/ SweepNext

SpecShared == InitShared /\ [][NextShared]_vars

(***************************************************************************)
(* evaluator.py: SafetyEvaluator called from a coroutine of an event loop. *)
(* The synchronous methods find the running loop, hand asyncio.run(...) to *)
(* a ThreadPoolExecutor and call future.result() on the loop's own thread; *)
(* the *_async methods await the evaluation on the loop.                   *)
(***************************************************************************)
InitLoop ==
    /\ \E g \in AgeGroup : child_profile = ChildProfile(g, {}, {})
    /\ classifiers = BuildChain(TRUE, TRUE, TRUE, TRUE)
    /\ InitQueue
    /\ pc = "loop"
    /\ call = NoCall
    /\ result = NoResult
    /\ merge = NoMerge
    /\ probe = NoProbe
    /\ now = 0
    /\ ret = NoRet
    /\ sweep = NoSweep
    /\ loop = NoLoop
    /\ _on_urgent_item = <<>>

\* A coroutine calls evaluate_input or evaluate_output: get_running_loop
\* succeeds, the evaluation is submitted to the executor and the coroutine
\* waits in future.result()
FacadeCall ==
    /\ pc = "loop"
    /\ loop.caller = "idle"
    /\ \E via \in {"evaluate_input", "evaluate_output"} :
        loop' = [loop EXCEPT !.caller = "future.result", !.via = via,
                             !.layers_done = 0]
    /\ UNCHANGED <<pipeline_vars, merge, probe, now, ret, sweep, _on_urgent_item>>

\* A coroutine awaits evaluate_input_async or evaluate_output_async
AsyncCall ==
    /\ pc = "loop"
    /\ loop.caller = "idle"
    /\ \E via \in {"evaluate_input_async", "evaluate_output_async"} :
        loop' = [loop EXCEPT !.caller = "await", !.via = via, !.layers_done = 0]
    /\ UNCHANGED <<pipeline_vars, merge, probe, now, ret, sweep, _on_urgent_item>>

\* The evaluation in flight awaits one more classifier of the chain
LayerDone ==
    /\ pc = "loop"
    /\ loop.caller # "idle"
    /\ loop.layers_done < Len(classifiers)
    /\ loop' = [loop EXCEPT !.layers_done = @ + 1]
    /\ UNCHANGED <<pipeline_vars, merge, probe, now, ret, sweep, _on_urgent_item>>

\* The evaluation returns to the calling coroutine
EvaluationReturns ==
    /\ pc = "loop"
    /\ loop.caller # "idle"
    /\ loop.layers_done = Len(classifiers)
    /\ loop' = [loop EXCEPT !.caller = "idle", !.via = "none", !.layers_done = 0]
    /\ UNCHANGED <<pipeline_vars, merge, probe, now, ret, sweep, _on_urgent_item>>

\* The loop's thread is not inside a blocking call: the loop can run its
\* other coroutines
LoopThreadFree == loop.caller # "future.result"

\* Another coroutine scheduled on the loop runs up to its next await
OtherCoroutineStep ==
    /\ pc = "loop"
    /\ LoopThreadFree
    /\ loop.others < MaxOthers
    /\ loop' = [loop EXCEPT !.others = @ + 1]
    /\ UNCHANGED <<pipeline_vars, merge, probe, now, ret, sweep, _on_urgent_item>>

NextLoop ==
    \/ FacadeCall
    \/ AsyncCall
    \/ LayerDone
    \/ EvaluationReturns
    \/ OtherCoroutineStep

SpecLoop == InitLoop /\ [][NextLoop]_vars

(***************************************************************************)
(* review_queue.py: urgent callbacks.  A callback is modelled by what it   *)
(* does when awaited: it returns, or it raises an Exception.               *)
(***************************************************************************)
InitUrgent ==
    /\ child_profile = ChildProfile("middle_childhood", {}, {})
    /\ classifiers = <<"regex_blocklist">>
    /\ InitQueue
    /\ pc = "urgent"
    /\ call = NoCall
    /\ result = NoResult
    /\ merge = NoMerge
    /\ probe = NoProbe
    /\ now = 0
    /\ ret = NoRet
    /\ sweep = NoSweep
    /\ loop = NoLoop
    /\ _on_urgent_item = <<>>

\* HumanReviewQueue.on_urgent_item(callback)
on_urgent_item ==
    /\ pc = "urgent"
    /\ Len(_on_urgent_item) < MaxCallbacks
    /\ \E callback \in {"returns", "raises"} :
        _on_urgent_item' = Append(_on_urgent_item, callback)
    /\ UNCHANGED <<pipeline_vars, merge, probe, now, ret, sweep, loop>>

\* _notify_urgent that lets a callback's exception end the loop
RECURSIVE _notify_urgent_StopsAtError(_, _)
_notify_urgent_StopsAtError(k, awaited) ==
    IF k > Len(_on_urgent_item) THEN awaited
    ELSE IF _on_urgent_item[k] = "raises" THEN Append(awaited, k)
    ELSE _notify_urgent_StopsAtError(k + 1, Append(awaited, k))

\* HumanReviewQueue._notify_urgent from the k-th callback on: the positions
\* of the callbacks awaited, in order.  What a callback raises is caught and
\* logged, and the loop goes on.
RECURSIVE _notify_urgent(_, _)
_notify_urgent(k, awaited) ==
    IF k > Len(_on_urgent_item) THEN awaited
    ELSE _notify_urgent(k + 1, Append(awaited, k))

\* add_for_review on a queue with callbacks: the ticket is stored, then the
\* callbacks are notified when the priority is URGENT, then the ticket is
\* returned
UrgentAdd ==
    /\ pc = "urgent"
    /\ Len(items) < MaxItems
    /\ \E classifier_results \in TicketVerdictLists,
          priority \in {"null", "low", "urgent"} :
        LET resolved == IF priority = "null"
                        THEN _calculate_priority(classifier_results)
                        ELSE priority
        IN  /\ add_for_review(TicketText, classifier_results, priority)
            /\ ret' = Ret("add_for_review",
                          <<classifier_results, priority, _on_urgent_item>>,
                          [id |-> NewId,
                           raised |-> FALSE,
                           awaited |-> IF resolved = "urgent"
                                       THEN _notify_urgent(1, <<>>) ELSE <<>>],
                          items)
    /\ UNCHANGED <<evaluator_vars, pc, call, result, merge, probe, now, sweep,
                   loop, _on_urgent_item>>

NextUrgent ==
    \/ on_urgent_item
    \/ UrgentAdd

SpecUrgent == InitUrgent /\ [][NextUrgent]_vars

(***************************************************************************)
(* Properties.                                                             *)
(***************************************************************************)
\* The precedence and severity orders as the specification states them.
PrecedenceRank ==
    [allow |-> 1, simplify |-> 2, warn_parent |-> 3, redirect |-> 4,
     review |-> 5, block |-> 6]

\* SafetyAgent.pre_check's _sev_rank: NONE < LOW < MEDIUM < HIGH < CRITICAL
_sev_rank(s) ==
    CASE s = "none" -> 0 [] s = "low" -> 1 [] s = "medium" -> 2
      [] s = "high" -> 3 [] s = "critical" -> 4 [] OTHER -> 0

Returned(entry) == pc = "returned" /\ call.entry = entry

Dangerous(text) == FirstPattern(DANGEROUS_INSTRUCTION_PATTERNS, text) # 0

\* evaluate has returned for a text matching a dangerous-instruction pattern,
\* and the pattern classifier itself returned a verdict
DangerousEvaluated ==
    /\ Returned("evaluate")
    /\ Dangerous(call.text)
    /\ 1 \notin call.raised

\* C1: for a text matching a dangerous-instruction pattern, whatever the
\* allow-list and block-list and whatever the later layers return or raise,
\* evaluate returns a final action in {BLOCK, REDIRECT} and a final severity
\* in {HIGH, CRITICAL}.
C1_DangerousStaysSevere ==
    DangerousEvaluated =>
        /\ result.final_action \in {"block", "redirect"}
        /\ result.final_severity \in {"high", "critical"}

\* C1 witness: a dangerous text whose keyword the allow-list names went
\* through a full three-layer chain with review submission enabled, and the
\* final severity is below HIGH.
C1_Witness ==
    /\ DangerousEvaluated
    /\ ~call.skip_human_review
    /\ <<"bomb">> \in child_profile.allowed_topics
    /\ Contains(call.text, <<"bomb">>)
    /\ Len(call.invoked) = 3
    /\ result.final_severity \notin {"high", "critical"}

\* C2: in evaluate with review submission enabled, a merged REVIEW adds
\* exactly one ticket carrying the text and all per-layer verdicts of the
\* call, the final action is BLOCK and review_item_id is that ticket's id;
\* the final action is never REVIEW; and review_item_id is null in every
\* other case (no ticket is added then).
C2_ReviewBecomesTicket ==
    Returned("evaluate") =>
        IF call.merged_action = "review" /\ ~call.skip_human_review
        THEN /\ Len(items) = call.tickets_before + 1
             /\ result.review_item_id = Len(items)
             /\ result.review_item_id \in items_by_id
             /\ queue # <<>> /\ queue[Len(queue)] = result.review_item_id
             /\ items[result.review_item_id].id = result.review_item_id
             /\ items[result.review_item_id].content = call.text
             /\ items[result.review_item_id].classifier_results = call.layer_results
             /\ items[result.review_item_id].status = "pending"
             /\ result.layer_results = call.layer_results
             /\ result.final_action = "block"
        ELSE /\ Len(items) = call.tickets_before
             /\ result.review_item_id = 0
             /\ ~call.skip_human_review => result.final_action # "review"

\* C2 witness: a merged REVIEW over several layers produced a ticket.
C2_Witness ==
    /\ Returned("evaluate")
    /\ ~call.skip_human_review
    /\ call.merged_action = "review"
    /\ Len(call.layer_results) = 3
    /\ result.review_item_id # 0

HighestRankMerged ==
    SetMax({1} \cup {PrecedenceRank[merge.merged[k].action] :
                        k \in 1..Len(merge.merged)})

LastMerged == merge.merged[Len(merge.merged)]

\* C4: folding _merge_decision from ALLOW/NONE leaves the running action
\* equal to the highest-priority action merged so far under
\* BLOCK > REVIEW > REDIRECT > WARN_PARENT > SIMPLIFY > ALLOW; a verdict of
\* strictly higher priority replaces action, reason and severity together,
\* one of strictly lower priority changes none of them.
C4_MergeTakesHighestPriority ==
    /\ PrecedenceRank[merge.current.action] = HighestRankMerged
    /\ merge.merged # <<>> =>
        /\ PrecedenceRank[LastMerged.action] > PrecedenceRank[merge.before.action]
            => merge.current = Decision(LastMerged.action, LastMerged.reason,
                                        LastMerged.severity)
        /\ PrecedenceRank[LastMerged.action] < PrecedenceRank[merge.before.action]
            => merge.current = merge.before

\* C4 witness: a BLOCK was merged and then an ALLOW, which changed nothing,
\* after a REDIRECT had been replaced by that BLOCK.
C4_Witness ==
    /\ Len(merge.merged) = 3
    /\ merge.merged[1].action = "redirect"
    /\ merge.merged[2].action = "block"
    /\ merge.merged[3].action = "allow"
    /\ merge.current = Decision("block", "r2", merge.merged[2].severity)

\* C5: when the incoming verdict's action has the priority of the running
\* action, reason and severity are adopted if and only if the incoming
\* severity is strictly higher in NONE < LOW < MEDIUM < HIGH < CRITICAL.
C5_TieKeepsHigherSeverity ==
    ( /\ merge.merged # <<>>
      /\ PrecedenceRank[LastMerged.action] = PrecedenceRank[merge.before.action] )
    => merge.current =
          IF _sev_rank(LastMerged.severity) > _sev_rank(merge.before.severity)
          THEN Decision(merge.before.action, LastMerged.reason, LastMerged.severity)
          ELSE merge.before

\* C6: a classifier whose classify raises leaves a REVIEW/MEDIUM verdict
\* tagged with its name at its place in layer_results, the loop goes on to
\* invoke the next classifier of the chain, and the call still returns a
\* result.
C6_FaultsAreAbsorbed ==
    /\ \A k \in call.raised :
        /\ call.layer_results[k].action = "review"
        /\ call.layer_results[k].severity = "medium"
        /\ call.layer_results[k].classifier_name = classifiers[k]
        /\ (k < Len(classifiers) /\ pc \in {"tail", "returned"}) =>
                /\ Len(call.invoked) > k
                /\ call.invoked[k + 1] = classifiers[k + 1]
    /\ call.raised # {} =>
        /\ pc = "classify" => ENABLED ClassifierReturns
        /\ pc = "tail" => ENABLED EvaluateTail
        /\ pc = "returned" =>
                /\ result.final_action \in SafetyAction
                /\ \A k \in call.raised : result.layer_results[k] = call.layer_results[k]

\* C6 witness: the first two classifiers of a three-layer chain raised and the
\* third was still invoked before the call returned.
C6_Witness ==
    /\ pc = "returned"
    /\ call.raised = {1, 2}
    /\ Len(call.invoked) = 3

\* C7 as stated: if any classifier raises in an evaluate call with review
\* submission enabled, the final action is BLOCK and a ticket has been
\* created, whatever the other layers return.
C7_Original ==
    ( /\ Returned("evaluate")
      /\ ~call.skip_human_review
      /\ call.raised # {} )
    => /\ result.final_action = "block"
       /\ result.review_item_id # 0

\* C7 amended: if any classifier raises in an evaluate call with review
\* submission enabled, the final action is BLOCK; a ticket for the evaluated
\* text is created unless a classifier invoked after the last failing one
\* returned BLOCK (the merged action is then BLOCK, not REVIEW).
C7_FaultBlocks ==
    ( /\ Returned("evaluate")
      /\ ~call.skip_human_review
      /\ call.raised # {} )
    => /\ result.final_action = "block"
       /\ result.review_item_id # 0
            <=> \A k \in (SetMax(call.raised) + 1)..Len(call.layer_results) :
                    call.layer_results[k].action # "block"
       /\ result.review_item_id # 0 =>
            /\ result.review_item_id \in items_by_id
            /\ items[result.review_item_id].content = call.text

\* C7 witness: a low-confidence BLOCK, then a classifier that raised, then a
\* classifier that returned; a ticket was created.
C7_Witness ==
    /\ Returned("evaluate")
    /\ ~call.skip_human_review
    /\ call.raised = {2}
    /\ Len(call.invoked) = 3
    /\ call.layer_results[1].action = "block"
    /\ result.review_item_id # 0

\* C8: in evaluate_output a readability breach makes the final action
\* SIMPLIFY only when the pipeline's final action is ALLOW; a final action of
\* BLOCK, REVIEW, REDIRECT or WARN_PARENT is returned unchanged.
C8_SimplifyOnlyOverAllow ==
    Returned("evaluate_output") =>
        IF call.merged_action = "allow"
        THEN result.final_action \in {"allow", "simplify"}
        ELSE result.final_action = call.merged_action

\* C9: no output check enqueues a review ticket: evaluate_output and
\* SafetyAgent.post_check leave the review queue as it was.
C9_OutputNeverQueued ==
    (Returned("evaluate_output") \/ Returned("post_check")) =>
        /\ Len(items) = call.tickets_before
        /\ result.review_item_id = 0

\* C10: where review submission is suppressed (evaluate_output, and evaluate
\* with skip_human_review), the final action is never REVIEW.
C10_NoReviewWhenSuppressed ==
    ( /\ pc = "returned"
      /\ call.entry \in {"evaluate", "evaluate_output"}
      /\ call.skip_human_review )
    => result.final_action # "review"

\* The classify call of the probe met a failure that is not unparsable JSON:
\* the classifier is not configured, the remote call failed, or handling the
\* response raised
ProbeFailed ==
    /\ probe.name # "none"
    /\ \/ ~probe.self.is_available
       \/ ~probe.reply.ok
       \/ /\ probe.name = "gemini_safety"
          /\ ~probe.reply.response.block_reason
          /\ probe.reply.response.parse_error

\* The semantic classifier's response text was not JSON
ProbeUnparsableJson ==
    /\ probe.name = "gemini_safety"
    /\ probe.self.is_available
    /\ probe.reply.ok
    /\ ~probe.reply.response.block_reason
    /\ ~probe.reply.response.parse_error
    /\ ~probe.reply.response.json_ok

ProbeVerdictIsFailSafe ==
    IF probe.self.fail_safe
    THEN /\ probe.verdict.action = "block"
         /\ probe.verdict.severity = "high"
         /\ probe.verdict.parent_alert
    ELSE /\ probe.verdict.action = "allow"
         /\ probe.verdict.severity = "none"

MaxRank(results) == SetMax({0} \cup {_sev_rank(results[k].severity) : k \in 1..Len(results)})

\* The priority table as the specification states it
PriorityTable(results) ==
    LET alert == \E k \in 1..Len(results) : results[k].parent_alert
        unsure == \E k \in 1..Len(results) : results[k].confidence < 50
    IN  IF MaxRank(results) = 4 \/ (alert /\ MaxRank(results) >= 3) THEN "urgent"
        ELSE IF MaxRank(results) >= 3 \/ alert THEN "high"
        ELSE IF MaxRank(results) >= 2 \/ unsure THEN "medium"
        ELSE "low"

\* C12: for every verdict list, the priority computed when none is supplied
\* is URGENT if the highest severity is CRITICAL or some verdict alerts the
\* parent and the highest severity is at least HIGH; else HIGH if the highest
\* severity is at least HIGH or some verdict alerts the parent; else MEDIUM
\* if the highest severity is at least MEDIUM or some confidence is below
\* 0.5; else LOW.
C12_PriorityTable ==
    ret.op = "_calculate_priority" => ret.value = PriorityTable(ret.args)

Terminal == {"approved", "rejected", "expired"}

Due(item) == item.status = "pending" /\ now - item.created_at > auto_expire_hours

\* C13: after get_pending_items returns, every ticket still retrievable by
\* id that was PENDING and older than auto_expire_hours when the call started
\* is EXPIRED with decision default_action_on_expire, and is not in the
\* returned list, whatever the priority filter.
C13_ExpiryOnRead ==
    ret.op = "get_pending_items" =>
        \A id \in items_by_id :
            Due(ret.before[id]) =>
                /\ items[id].status = "expired"
                /\ items[id].review_decision = default_action_on_expire
                /\ \A k \in 1..Len(ret.value) : ret.value[k] # id

\* C14: in every reachable state of the queue, a ticket's review_decision is
\* non-null if and only if its status is APPROVED, REJECTED or EXPIRED.
C14_DecisionIffTerminal ==
    \A id \in 1..Len(items) :
        items[id].review_decision # "null" <=> items[id].status \in Terminal

\* C14 witness: one ticket expired and another was approved by a reviewer.
C14_Witness ==
    \E a, b \in 1..Len(items) :
        /\ items[a].status = "expired"
        /\ items[b].status = "approved"

\* C15: every ticket is created PENDING; in one call its status changes only
\* from PENDING to APPROVED (submit_review with ALLOW), to REJECTED
\* (submit_review with another decision) or to EXPIRED (the sweep); a status
\* of APPROVED, REJECTED or EXPIRED never changes again and IN_REVIEW never
\* occurs.
C15_Lifecycle ==
    /\ \A id \in 1..Len(items) : items[id].status \in {"pending"} \cup Terminal
    /\ ret.op \in {"add_for_review", "get_pending_items", "submit_review", "get_decision"} =>
        \A id \in 1..Len(items) :
            IF id > Len(ret.before)
            THEN ret.op = "add_for_review" /\ items[id].status = "pending"
            ELSE \/ items[id].status = ret.before[id].status
                 \/ /\ ret.before[id].status = "pending"
                    /\ \/ /\ items[id].status = "approved"
                          /\ ret.op = "submit_review"
                          /\ ret.args = <<id, "allow">>
                       \/ /\ items[id].status = "rejected"
                          /\ ret.op = "submit_review"
                          /\ ret.args[1] = id /\ ret.args[2] # "allow"
                       \/ /\ items[id].status = "expired"
                          /\ ret.op = "get_pending_items"

\* C15 witness: the queue holds an approved, a rejected and an expired ticket.
C15_Witness ==
    \E a, b, c \in 1..Len(items) :
        /\ items[a].status = "approved"
        /\ items[b].status = "rejected"
        /\ items[c].status = "expired"

\* C16: submit_review for an unknown id or for a ticket that is not PENDING
\* returns false and changes no field of any ticket.
C16_RefusedReviewChangesNothing ==
    ( /\ ret.op = "submit_review"
      /\ \/ ret.args[1] \notin items_by_id
         \/ ret.before[ret.args[1]].status # "pending" )
    => /\ ret.value = FALSE
       /\ items = ret.before

\* C16 witness: a review was submitted for a ticket that had expired, and one
\* for an id the queue never issued.
C16_Witness ==
    /\ ret.op = "submit_review"
    /\ ret.value = FALSE
    /\ ret.args[1] \in items_by_id
    /\ ret.before[ret.args[1]].status = "expired"
    /\ ret.args[2] = "allow"

PriorityRank == [urgent |-> 1, high |-> 2, medium |-> 3, low |-> 4]

\* Ticket a comes strictly before ticket b: higher priority, or the same
\* priority and older
Before(a, b) ==
    \/ PriorityRank[items[a].priority] < PriorityRank[items[b].priority]
    \/ /\ items[a].priority = items[b].priority
       /\ items[a].created_at < items[b].created_at

\* The queue's tickets that a get_pending_items call with this filter may
\* return
Eligible(priority) ==
    {id \in 1..Len(items) :
        /\ InQueue(id)
        /\ items[id].status = "pending"
        /\ (priority = "null" \/ items[id].priority = priority)}

\* C17: get_pending_items returns only tickets that are PENDING after the
\* sweep (and of the filter's priority when one is given), ordered URGENT,
\* HIGH, MEDIUM, LOW and oldest first within a priority, and the result is
\* the first `limit` tickets of that order.
C17_PendingOrder ==
    ret.op = "get_pending_items" =>
        LET v == ret.value
            limit == ret.args[1]
            eligible == Eligible(ret.args[2])
        IN  /\ \A k \in 1..Len(v) : v[k] \in eligible
            /\ \A i, j \in 1..Len(v) : i < j => v[i] # v[j] /\ ~Before(v[j], v[i])
            /\ Len(v) = IF limit < Cardinality(eligible) THEN limit
                                                         ELSE Cardinality(eligible)
            /\ \A e \in eligible :
                (\A k \in 1..Len(v) : v[k] # e) =>
                    \A k \in 1..Len(v) : ~Before(e, v[k])

\* C17 witness: a younger URGENT ticket is returned ahead of an older HIGH
\* one.
C17_Witness ==
    /\ ret.op = "get_pending_items"
    /\ Len(ret.value) = 2
    /\ items[ret.value[1]].priority = "urgent"
    /\ items[ret.value[2]].priority = "high"
    /\ items[ret.value[1]].created_at > items[ret.value[2]].created_at

\* The generic-blocklist keywords
BlocklistTerms == {BLOCKED_TERMS[i].term : i \in 1..Len(BLOCKED_TERMS)}

\* The generic-blocklist keywords the profile lists both as allowed and as
\* blocked
AllowedAndBlocked ==
    BlocklistTerms \cap child_profile.allowed_topics \cap child_profile.blocked_topics

\* C18: for every generic-blocklist topic that the profile lists in both
\* allowed_topics and blocked_topics, and every text containing that topic,
\* the final action is BLOCK or REDIRECT, never ALLOW.
C18_BlockListWins ==
    ( /\ pc = "returned"
      /\ call.raised = {}
      /\ \E topic \in AllowedAndBlocked : Contains(call.text, topic) )
    => result.final_action \in {"block", "redirect"}

\* C18 witness: a whole chain ran on a text about a topic that is both
\* allowed and blocked, and the pipeline returned BLOCK.
C18_Witness ==
    /\ Returned("evaluate")
    /\ \E topic \in AllowedAndBlocked : Contains(call.text, topic)
    /\ Len(call.layers_executed) = 3
    /\ result.final_action = "block"

\* The text matches no dangerous-instruction pattern and no PII pattern
NoPatternMatch(text) ==
    /\ FirstPattern(DANGEROUS_INSTRUCTION_PATTERNS, text) = 0
    /\ FirstPattern(PII_PATTERNS, text) = 0

\* The generic-blocklist keywords that occur in the text
KeywordsIn(text) == {term \in BlocklistTerms : Contains(text, term)}

\* The pattern classifier alone ran on the text and returned its verdict
PatternOnly ==
    /\ pc = "returned"
    /\ classifiers = <<"regex_blocklist">>
    /\ call.raised = {}
    /\ NoPatternMatch(call.text)

\* The text's keywords that the allow-list does not skip
NotSkipped(text) ==
    {term \in KeywordsIn(text) :
        \/ term \in child_profile.blocked_topics
        \/ term \notin child_profile.allowed_topics}

\* C19: when a text's only pattern-classifier match is one generic-blocklist
\* keyword that is in allowed_topics and not in blocked_topics, the
\* pattern-only pipeline's action is ALLOW and evaluate returns ALLOW; the
\* allow-list skip continues the scan, so when the text also holds a
\* blocklist keyword that is not allowed the verdict is BLOCK or REDIRECT.
C19_AllowListSkips ==
    PatternOnly =>
        /\ ( /\ Cardinality(KeywordsIn(call.text)) = 1
             /\ NotSkipped(call.text) = {}
             /\ \A topic \in child_profile.blocked_topics :
                    ~Contains(call.text, topic) )
           => /\ call.layer_results[1].action = "allow"
              /\ call.merged_action = "allow"
              /\ call.entry = "evaluate" => result.final_action = "allow"
        /\ ( /\ KeywordsIn(call.text) # NotSkipped(call.text)
             /\ NotSkipped(call.text) # {} )
           => /\ call.layer_results[1].action \in {"block", "redirect"}
              /\ call.layer_results[1].reason = "Blocked term detected"
              /\ call.merged_action \in {"block", "redirect"}

\* C19 witness: evaluate allowed a text about a keyword the parent allowed.
C19_Witness ==
    /\ PatternOnly
    /\ call.entry = "evaluate"
    /\ Cardinality(KeywordsIn(call.text)) = 1
    /\ NotSkipped(call.text) = {}
    /\ result.final_action = "allow"

\* The pattern classifier's verdict of the call comes from a PII pattern or a
\* generic-blocklist keyword
PiiOrKeywordVerdict ==
    /\ pc = "returned"
    /\ 1 \notin call.raised
    /\ call.layer_results[1].classifier_name = "regex_blocklist"
    /\ call.layer_results[1].reason \in
          {"Personal information request detected", "Blocked term detected"}

\* C20: for PII-pattern and generic-blocklist matches the pattern classifier
\* sets parent_alert to true if and only if the matched severity is at least
\* HIGH in the order NONE < LOW < MEDIUM < HIGH < CRITICAL; a CRITICAL
\* blocklist keyword yields a final action of BLOCK or REDIRECT, severity
\* CRITICAL and parent_alert true.
C20_AlertFromHighUp ==
    PiiOrKeywordVerdict =>
        /\ call.layer_results[1].parent_alert
                <=> _sev_rank(call.layer_results[1].severity) >= _sev_rank("high")
        /\ ( /\ call.layer_results[1].reason = "Blocked term detected"
             /\ call.layer_results[1].severity = "critical"
             /\ call.entry = "evaluate" )
           => /\ result.final_action \in {"block", "redirect"}
              /\ result.final_severity = "critical"
              /\ call.layer_results[1].parent_alert

\* C20 witness: a CRITICAL blocklist keyword outside any dangerous pattern
\* was classified.
C20_Witness ==
    /\ PiiOrKeywordVerdict
    /\ call.layer_results[1].reason = "Blocked term detected"
    /\ call.layer_results[1].severity = "critical"

\* The semantic classifier parsed the model's JSON assessment
ProbeParsedAssessment ==
    /\ probe.name = "gemini_safety"
    /\ probe.self.is_available
    /\ probe.reply.ok
    /\ ~probe.reply.response.block_reason
    /\ ~probe.reply.response.parse_error
    /\ probe.reply.response.json_ok

YoungBand == {"early_childhood", "middle_childhood"}

\* C21: for the two youngest age bands and every parsed assessment, a
\* severity of at least MEDIUM (by rank) yields BLOCK whatever action the
\* model suggested, a severity of at least LOW with suggested action ALLOW
\* yields SIMPLIFY, and a severity of NONE with suggested action ALLOW stays
\* ALLOW.
C21_YoungSafetyFloor ==
    (ProbeParsedAssessment /\ probe.context.age_group \in YoungBand) =>
        LET rank == _sev_rank(probe.reply.response.severity)
            suggested == probe.reply.response.suggested_action
        IN  /\ rank >= 2 => probe.verdict.action = "block"
            /\ (rank = 1 /\ suggested = "allow") => probe.verdict.action = "simplify"
            /\ (rank = 0 /\ suggested = "allow") => probe.verdict.action = "allow"

\* C21 witness: for a young child the model suggested ALLOW at severity HIGH.
C21_Witness ==
    /\ ProbeParsedAssessment
    /\ probe.context.age_group = "early_childhood"
    /\ probe.reply.response.severity = "high"
    /\ probe.reply.response.suggested_action = "allow"

\* Some native rating maps to a severity of at least MEDIUM by rank
NativeAtLeastMedium(ratings) ==
    \E i \in 1..Len(ratings) : _sev_rank(GEMINI_PROBABILITY_MAP[ratings[i]]) >= 2

\* C28: when the semantic classifier's response text is not parsable JSON,
\* the verdict is BLOCK if some native rating maps to a severity of at least
\* MEDIUM by rank, otherwise ALLOW with severity NONE at reduced confidence;
\* all-NEGLIGIBLE ratings yield ALLOW and a HIGH rating yields BLOCK.
C28_NativeRatingsFallback ==
    ProbeUnparsableJson =>
        IF NativeAtLeastMedium(probe.reply.response.ratings)
        THEN probe.verdict.action = "block"
        ELSE /\ probe.verdict.action = "allow"
             /\ probe.verdict.severity = "none"
             /\ probe.verdict.confidence = 60

\* C28 witness: text that is not JSON arrived with a single HIGH rating.
C28_Witness ==
    /\ ProbeUnparsableJson
    /\ probe.reply.response.ratings = <<"HIGH">>

\* The last classifier invoked so far raised, and the running action before it
\* was BLOCK: an earlier classifier returned BLOCK and none raised since
FailedAfterBlock ==
    LET k == Len(call.layer_results)
    IN  /\ k \in call.raised
        /\ \E j \in 1..(k - 1) :
            /\ call.layer_results[j].action = "block"
            /\ \A i \in j..(k - 1) : i \notin call.raised

\* C22: a classifier failure never lowers the running decision: when the
\* running action before the failing layer is BLOCK it is still BLOCK after
\* that layer, with the same severity, whether review submission is enabled
\* or suppressed.
C22_FailureNeverLowers ==
    FailedAfterBlock =>
        /\ call.current.action = "block"
        /\ ( /\ call.raised = {2}
             /\ Len(call.layer_results) = 2 )
           => call.current.severity = call.layer_results[1].severity

\* C22 witness: the second classifier raised after the pattern classifier
\* returned BLOCK, in an evaluate call with review submission enabled.
C22_Witness ==
    /\ FailedAfterBlock
    /\ call.entry = "evaluate"
    /\ ~call.skip_human_review
    /\ Len(call.layer_results) = 2

\* C23: evaluate, in either mode, returns final action ALLOW only if every
\* classifier invoked in that call returned a verdict with action ALLOW and
\* no classifier raised.
C23_AllowOnlyWhenAllAllow ==
    (Returned("evaluate") /\ result.final_action = "allow") =>
        /\ call.raised = {}
        /\ Len(result.layer_results) = Len(call.invoked)
        /\ \A k \in 1..Len(result.layer_results) :
                result.layer_results[k].action = "allow"

\* C23 witness: evaluate returned ALLOW after three classifiers allowed the
\* text.
C23_Witness ==
    /\ Returned("evaluate")
    /\ result.final_action = "allow"
    /\ Len(call.invoked) = 3

\* The ids of the tickets in the insertion-ordered store
QueueIds == {id \in 1..Len(items) : InQueue(id)}

\* C24: after any sequence of add_for_review calls the queue holds at most
\* max_queue_size tickets and its two indexes agree: the tickets reachable
\* by id lookup are exactly the tickets in the insertion-ordered store, so a
\* ticket evicted for capacity is not accepted by submit_review.
C24_IndexesAgree ==
    /\ Cardinality(QueueIds) <= MaxQueueSize
    /\ items_by_id = QueueIds
    /\ ( /\ ret.op = "submit_review"
         /\ ret.args[1] \in 1..Len(items)
         /\ ~InQueue(ret.args[1]) )
       => ret.value = FALSE

\* C24 witness: a third ticket was added to a queue of capacity two.
C24_Witness ==
    /\ ret.op = "add_for_review"
    /\ Len(items) > MaxQueueSize
    /\ Cardinality(QueueIds) = MaxQueueSize

\* C25: operations on a review queue shared by concurrent callers are safe
\* under every interleaving: when add_for_review or submit_review runs while
\* a get_pending_items sweep is suspended in an expiry callback, or runs from
\* another thread, no operation fails, and every ticket ends in a state that
\* some sequential order of the operations produces: after the sweep no
\* ticket that was due when it started is still PENDING.
C25_SafeInterleavings ==
    /\ ~sweep.failed
    /\ ~sweep.active => \A id \in sweep.due : items[id].status # "pending"

\* C25 witness: add_for_review ran while the sweep was suspended in an
\* expiry callback on the event loop.
C25_Witness ==
    /\ pc = "shared_loop"
    /\ sweep.active
    /\ sweep.suspended
    /\ sweep.mutated

\* C26: the synchronous facade does not block other concurrent evaluations:
\* while an evaluate_input or evaluate_output call made from a coroutine is
\* in flight, the other coroutines of that event loop can run.
C26_FacadeDoesNotBlock ==
    loop.via \in {"evaluate_input", "evaluate_output"} => LoopThreadFree

\* C26 witness: evaluate_input is in flight, called from a coroutine, with
\* two classifiers of the chain done.
C26_Witness ==
    /\ loop.via = "evaluate_input"
    /\ loop.caller # "idle"
    /\ loop.layers_done = 2

\* The last call was add_for_review on a queue that may hold callbacks
UrgentAdded == pc = "urgent" /\ ret.op = "add_for_review"

\* C27: add_for_review awaits every registered urgent callback exactly once,
\* in registration order and before it returns, if and only if the ticket's
\* priority (computed or supplied) is URGENT; a callback's exception is not
\* propagated, does not keep the remaining callbacks from running, and
\* leaves the ticket enqueued as PENDING.
C27_UrgentCallbacks ==
    UrgentAdded =>
        LET id == ret.value.id
        IN  /\ ~ret.value.raised
            /\ InQueue(id) /\ items[id].status = "pending"
            /\ ret.value.awaited =
                    IF items[id].priority = "urgent"
                    THEN [k \in 1..Len(ret.args[3]) |-> k]
                    ELSE <<>>

\* C27 witness: an URGENT ticket was added to a queue whose first callback
\* raises and whose second returns.
C27_Witness ==
    /\ UrgentAdded
    /\ ret.args[3] = <<"raises", "returns">>
    /\ items[ret.value.id].priority = "urgent"
    /\ ret.value.awaited = <<1, 2>>

\* What the real toxicity classifier makes of the mock's score for the
\* probed text in the probed age band
RealVerdictForMockScore ==
    _process_scores(probe.reply.max_score,
                    AGE_THRESHOLDS[probe.context.age_group])

\* C29: for every age band and every maximum score, the offline mock returns
\* the same action, severity and parent_alert as _process_scores returns for
\* that score and band.
C29_MockMatchesProcessScores ==
    probe.name = "perspective_api_mock" =>
        /\ probe.verdict.action = RealVerdictForMockScore.action
        /\ probe.verdict.severity = RealVerdictForMockScore.severity
        /\ probe.verdict.parent_alert = RealVerdictForMockScore.parent_alert

\* C29 witness: the mock was asked about a text whose score lies above 0.5
\* and inside the review band of the child's age group.
C29_Witness ==
    /\ probe.name = "perspective_api_mock"
    /\ probe.reply.max_score > 50
    /\ RealVerdictForMockScore.action = "review"
    /\ probe.verdict.action = "review"

(***************************************************************************)
(* agents/safety_agent.py: pre_check as a function of the multi-layer      *)
(* verdict, of whether the model client is available, and of the model's   *)
(* answer.                                                                 *)
(***************************************************************************)
\* MultiLayerResult.to_safety_result() of the evaluation pre_check runs
BaseResults ==
    {SafetyResult(a, "multi-layer decision", sv, 70, pa, "multi_layer") :
        a \in SafetyAction, sv \in SafetySeverity, pa \in BOOLEAN}

\* What _generate_json gives _llm_verify: a failure, or an object whose
\* "severity" and "action" strings may or may not name enum members
LlmAnswers ==
    {[ok |-> FALSE, severity |-> "none", action |-> "allow"]}
        \cup {[ok |-> TRUE, severity |-> sv, action |-> a] :
                sv \in SafetySeverity \cup {"severe"},
                a \in SafetyAction \cup {"escalate"}}

\* SafetyAgent._llm_verify
_llm_verify(is_available, answer) ==
    IF ~is_available THEN
        SafetyResult("allow", "LLM verification unavailable", "none", 100, FALSE,
                     "unknown")
    ELSE IF ~answer.ok THEN
        SafetyResult("review", "LLM verification error", "low", 100, FALSE,
                     "unknown")
    ELSE
        SafetyResult(IF answer.action \in SafetyAction THEN answer.action ELSE "allow",
                     "LLM semantic check",
                     IF answer.severity \in SafetySeverity THEN answer.severity ELSE "none",
                     100, FALSE, "unknown")

\* SafetyAgent.pre_check, after the multi-layer evaluation
pre_check(base_result, is_available, answer) ==
    IF base_result.action = "block" THEN base_result
    ELSE IF base_result.severity = "none" THEN base_result
    ELSE IF is_available /\ base_result.action \in {"review", "redirect"} THEN
        LET llm_result == _llm_verify(is_available, answer)
        IN  IF _sev_rank(llm_result.severity) > _sev_rank(base_result.severity)
            THEN llm_result
            ELSE base_result
    ELSE base_result

InitPreCheck ==
    /\ child_profile = ChildProfile("middle_childhood", {}, {})
    /\ classifiers = <<"regex_blocklist">>
    /\ InitQueue
    /\ pc = "pre_check"
    /\ call = NoCall
    /\ result = NoResult
    /\ merge = NoMerge
    /\ probe = NoProbe
    /\ now = 0
    /\ ret = NoRet
    /\ sweep = NoSweep
    /\ loop = NoLoop
    /\ _on_urgent_item = <<>>

\* SafetyAgent.pre_check(user_input) is called and returns
PreCheck ==
    /\ pc = "pre_check"
    /\ ret.op = "none"
    /\ \E base_result \in BaseResults, is_available \in BOOLEAN,
          answer \in LlmAnswers :
        ret' = Ret("pre_check", <<base_result, is_available, answer>>,
                   pre_check(base_result, is_available, answer), <<>>)
    /\ UNCHANGED <<pipeline_vars, merge, probe, now, sweep, loop, _on_urgent_item>>

NextPreCheck == PreCheck

SpecPreCheck == InitPreCheck /\ [][NextPreCheck]_vars

\* C30: the verification by the language model can escalate but not
\* de-escalate: the verdict pre_check returns has an action priority and a
\* severity rank each at least those of the multi-layer base verdict.
C30_LlmNeverDeescalates ==
    ret.op = "pre_check" =>
        /\ action_priority[ret.value.action] >= action_priority[ret.args[1].action]
        /\ _sev_rank(ret.value.severity) >= _sev_rank(ret.args[1].severity)

\* C30 witness: the model's answer was taken in place of a REVIEW or
\* REDIRECT base verdict.
C30_Witness ==
    /\ ret.op = "pre_check"
    /\ ret.args[1].action \in {"review", "redirect"}
    /\ ret.args[2]
    /\ ret.args[3].ok
    /\ ret.value.classifier_name = "unknown"
    /\ _sev_rank(ret.value.severity) > _sev_rank(ret.args[1].severity)

====
